---- MODULE Spec2Model ----
(***************************************************************************)
(* Model of src/main.py: the Tic Tac Toe engine (find_winner,              *)
(* available_moves, find_finishing_move, choose_ai_move), the human input  *)
(* loop (prompt_human_move), the session loop (run_tic_tac_toe) and the    *)
(* menu loop (handle_choice, main).                                        *)
(*                                                                         *)
(* Python values are modelled as tagged records so that None, integers,    *)
(* strings and raised exceptions stay distinct values.                     *)
(***************************************************************************)
EXTENDS Integers, Sequences, FiniteSets, TLC

VARIABLES
    board,      \* the list of 9 cells (run_tic_tac_toe's `board`, or a function's argument)
    current,    \* run_tic_tac_toe's `current`
    move,       \* run_tic_tac_toe's `move`
    winner,     \* run_tic_tac_toe's `winner`
    msg,        \* the last line printed
    pc,         \* "loop": in run_tic_tac_toe's while loop; "returned"; "raised"; "call": a function call on its own
    exc,        \* the exception that left run_tic_tac_toe, if any
    nmoves,     \* number of executions of line 132 (board[move] = current) so far
    op,         \* name of the function called on its own ("none" in a session)
    args,       \* its arguments other than the board
    ret,        \* its result
    mpc,        \* main: "off" (not running), "input" (line 205), "game" (in actions["1"]()), "done" (returned), "raised" (left by an exception)
    user_choice,    \* main's `user_choice`
    keep_running,   \* main's `keep_running`
    launched    \* the function the last handle_choice called, "none" if it called none

menu == <<mpc, user_choice, keep_running, launched>>
vars == <<board, current, move, winner, msg, pc, exc, nmoves, op, args, ret,
          mpc, user_choice, keep_running, launched>>

-----------------------------------------------------------------------------
(* Bounds of the model *)

\* longest raw input line typed at a prompt
MaxLen == 2
\* list indices tried against board[move] = current range over -MaxIdx..MaxIdx
MaxIdx == 10

-----------------------------------------------------------------------------
(* Python values *)

None == [tag |-> "None"]
IntV(i) == [tag |-> "int", val |-> i]
StrV(s) == [tag |-> "str", val |-> s]
ListV(l) == [tag |-> "list", val |-> l]
Raise(e) == [tag |-> "raise", val |-> e]

IsNone(v) == v.tag = "None"

\* Python's == on the values used here (None equals only None)
PyEq(v, w) == v.tag = w.tag /\ (v.tag = "None" \/ v.val = w.val)

\* truth value of `if winner:` : None and "" are false
Truthy(v) == v.tag # "None" /\ ~(v.tag = "str" /\ v.val = "")

-----------------------------------------------------------------------------
(* The board *)

\* len(board)
BoardLen == 9
EMPTY == " "
Marker == {"X", "O"}
Cell == {EMPTY} \cup Marker
Index == 0 .. (BoardLen - 1)
AllBoards == [Index -> Cell]
EmptyBoard == [i \in Index |-> EMPTY]

winning_lines ==
    << <<0, 1, 2>>, <<3, 4, 5>>, <<6, 7, 8>>,
       <<0, 3, 6>>, <<1, 4, 7>>, <<2, 5, 8>>,
       <<0, 4, 8>>, <<2, 4, 6>> >>

\* find_winner_from giving up at the first line that starts with an empty cell
RECURSIVE find_winner_from_stops(_, _)
find_winner_from_stops(b, k) ==
    IF k > Len(winning_lines) THEN None
    ELSE LET a == winning_lines[k][1]
             bb == winning_lines[k][2]
             c == winning_lines[k][3]
         IN  IF b[a] = EMPTY THEN None
             ELSE IF b[a] = b[bb] /\ b[bb] = b[c]
                  THEN StrV(b[a])
                  ELSE find_winner_from_stops(b, k + 1)

\* the for loop of find_winner from the k-th line on
RECURSIVE find_winner_from(_, _)
find_winner_from(b, k) ==
    IF k > Len(winning_lines) THEN None
    ELSE LET a == winning_lines[k][1]
             bb == winning_lines[k][2]
             c == winning_lines[k][3]
         IN  IF b[a] # EMPTY /\ b[a] = b[bb] /\ b[bb] = b[c]
             THEN StrV(b[a])
             ELSE find_winner_from(b, k + 1)

find_winner(b) == find_winner_from(b, 1)

\* enumerate(board): the indices in list order
Enumerate == [k \in 1 .. BoardLen |-> k - 1]

IsOpen(b, idx) == b[idx] = EMPTY

\* available_moves keeping the taken cells instead of the open ones
available_moves_taken(b) == SelectSeq(Enumerate, LAMBDA idx : ~IsOpen(b, idx))

available_moves(b) == SelectSeq(Enumerate, LAMBDA idx : IsOpen(b, idx))

\* a "copy" that is the same list object as the original
list_copy_alias(b) == [alias |-> TRUE, cells |-> b]

\* board.copy(): a new list object with the same cells
list_copy(b) == [alias |-> FALSE, cells |-> b]

\* find_finishing_from testing `if find_winner(trial):` (any winner at all)
RECURSIVE find_finishing_from_any(_, _, _, _)
find_finishing_from_any(b, marker, moves, k) ==
    IF k > Len(moves) THEN [ret |-> None, board |-> b]
    ELSE LET idx == moves[k]
             trial == list_copy(b)
             written == [trial.cells EXCEPT ![idx] = marker]
             after == IF trial.alias THEN written ELSE b
         IN  IF Truthy(find_winner(written))
             THEN [ret |-> IntV(idx), board |-> after]
             ELSE find_finishing_from_any(after, marker, moves, k + 1)

\* the for loop of find_finishing_move over the list `moves` from position k on:
\* its result and the cells of the caller's list afterwards (`written` is
\* `trial` after trial[idx] = marker, which is the caller's list only if
\* `trial` is no new object)
RECURSIVE find_finishing_from(_, _, _, _)
find_finishing_from(b, marker, moves, k) ==
    IF k > Len(moves) THEN [ret |-> None, board |-> b]
    ELSE LET idx == moves[k]
             trial == list_copy(b)
             written == [trial.cells EXCEPT ![idx] = marker]
             after == IF trial.alias THEN written ELSE b
         IN  IF PyEq(find_winner(written), StrV(marker))
             THEN [ret |-> IntV(idx), board |-> after]
             ELSE find_finishing_from(after, marker, moves, k + 1)

\* find_finishing_move as a run: [ret, board]
find_finishing_run(b, marker) ==
    find_finishing_from(b, marker, available_moves(b), 1)

\* the value find_finishing_move returns
find_finishing_move(b, marker) == find_finishing_run(b, marker).ret

\* the preference order without the edges
preferred_spaces_no_edges == <<4, 0, 2, 6, 8>>

\* the preference order with the corners before the center
preferred_spaces_corners_first == <<0, 2, 6, 8, 4, 1, 3, 5, 7>>

preferred_spaces == <<4, 0, 2, 6, 8, 1, 3, 5, 7>>

\* the for loop over preferred_spaces from position k on; None when the loop
\* ends without returning
RECURSIVE preferred_from(_, _)
preferred_from(b, k) ==
    IF k > Len(preferred_spaces) THEN None
    ELSE IF b[preferred_spaces[k]] = EMPTY
         THEN IntV(preferred_spaces[k])
         ELSE preferred_from(b, k + 1)

\* line 94: available_moves(board)[0]
fallback(b) ==
    IF Len(available_moves(b)) > 0
    THEN IntV(available_moves(b)[1])
    ELSE Raise("IndexError")

\* lines 88-94: the value returned and the line that returned it
preferred_or_fallback(b) ==
    IF ~IsNone(preferred_from(b, 1))
    THEN [ret |-> preferred_from(b, 1), via |-> "preferred"]
    ELSE [ret |-> fallback(b), via |-> "fallback"]

\* choose_ai_move as a run: the value returned, the step that returned it and
\* the cells of the caller's list afterwards
choose_ai_run(b, ai_marker, human_marker) ==
    LET w == find_finishing_run(b, ai_marker)
        h == find_finishing_run(w.board, human_marker)
    IN  IF ~IsNone(w.ret) THEN [ret |-> w.ret, via |-> "win", board |-> w.board]
        ELSE IF ~IsNone(h.ret) THEN [ret |-> h.ret, via |-> "block", board |-> h.board]
        ELSE [ret |-> preferred_or_fallback(h.board).ret,
              via |-> preferred_or_fallback(h.board).via,
              board |-> h.board]

\* choose_ai_move with the block tried before the win
choose_ai_move_block_first(b, ai_marker, human_marker) ==
    LET winning_move == find_finishing_move(b, ai_marker)
        blocking_move == find_finishing_move(b, human_marker)
    IN  IF ~IsNone(blocking_move) THEN blocking_move
        ELSE IF ~IsNone(winning_move) THEN winning_move
        ELSE preferred_or_fallback(b).ret

\* choose_ai_move without the block
choose_ai_move_no_block(b, ai_marker, human_marker) ==
    LET winning_move == find_finishing_move(b, ai_marker)
    IN  IF ~IsNone(winning_move) THEN winning_move
        ELSE preferred_or_fallback(b).ret

\* the value choose_ai_move returns
choose_ai_move(b, ai_marker, human_marker) ==
    choose_ai_run(b, ai_marker, human_marker).ret

\* list assignment without the wrap-around of negative indices
list_setitem_no_wrap(b, idx, v) ==
    IF idx >= 0 /\ idx < BoardLen THEN [res |-> None, board |-> [b EXCEPT ![idx] = v]]
    ELSE [res |-> Raise("IndexError"), board |-> b]

\* board[idx] = v on a Python list: negative indices count from the end,
\* an index outside -len..len-1 raises IndexError and changes nothing
list_setitem(b, idx, v) ==
    IF idx >= 0 /\ idx < BoardLen THEN [res |-> None, board |-> [b EXCEPT ![idx] = v]]
    ELSE IF idx < 0 /\ idx >= -BoardLen
         THEN [res |-> None, board |-> [b EXCEPT ![idx + BoardLen] = v]]
         ELSE [res |-> Raise("IndexError"), board |-> b]

-----------------------------------------------------------------------------
(* Input lines *)

DigitChars == <<"0", "1", "2", "3", "4", "5", "6", "7", "8", "9">>
\* characters for which str.isdigit() is true: the ASCII digits and, among
\* others, SUPERSCRIPT TWO, which int() does not accept
SUP2 == "sup2"
Space == " "
Chars == {DigitChars[k] : k \in 1 .. Len(DigitChars)} \cup {SUP2, Space, "a"}
RawInputs == UNION {[1 .. n -> Chars] : n \in 0 .. MaxLen}

IsDecimalChar(c) == \E k \in 1 .. Len(DigitChars) : DigitChars[k] = c
IsDigitChar(c) == IsDecimalChar(c) \/ c = SUP2
DigitVal(c) == (CHOOSE k \in 1 .. Len(DigitChars) : DigitChars[k] = c) - 1

\* str.strip(): drop leading and trailing whitespace
RECURSIVE lstrip(_)
lstrip(s) == IF s # <<>> /\ Head(s) = Space THEN lstrip(Tail(s)) ELSE s
RECURSIVE rstrip(_)
rstrip(s) ==
    IF s # <<>> /\ s[Len(s)] = Space THEN rstrip(SubSeq(s, 1, Len(s) - 1)) ELSE s
strip(s) == rstrip(lstrip(s))

\* str.isdigit(): at least one character and all of them digits
isdigit(s) == Len(s) > 0 /\ \A k \in 1 .. Len(s) : IsDigitChar(s[k])

\* int(s) for a string on which isdigit() holds
RECURSIVE int_from(_, _, _)
int_from(s, k, acc) ==
    IF k > Len(s) THEN IntV(acc)
    ELSE IF ~IsDecimalChar(s[k]) THEN Raise("ValueError")
         ELSE int_from(s, k + 1, acc * 10 + DigitVal(s[k]))
int(s) == int_from(s, 1, 0)

\* prompt_step without the test for a taken cell
prompt_step_no_taken_test(b, c) ==
    IF ~isdigit(c)
    THEN [kind |-> "continue", msg |-> <<"Please enter a number between 1 and 9.">>]
    ELSE IF int(c).tag = "raise"
         THEN [kind |-> "raise", exc |-> int(c).val]
         ELSE LET position == int(c).val - 1
              IN  IF position \notin Index
                  THEN [kind |-> "continue", msg |-> <<"Move must be between 1 and 9.">>]
                  ELSE [kind |-> "return", val |-> position]

\* one iteration of prompt_human_move's while loop on the stripped line c
prompt_step(b, c) ==
    IF ~isdigit(c)
    THEN [kind |-> "continue", msg |-> <<"Please enter a number between 1 and 9.">>]
    ELSE IF int(c).tag = "raise"
         THEN [kind |-> "raise", exc |-> int(c).val]
         ELSE LET position == int(c).val - 1
              IN  IF position \notin Index
                  THEN [kind |-> "continue", msg |-> <<"Move must be between 1 and 9.">>]
                  ELSE IF b[position] # EMPTY
                       THEN [kind |-> "continue",
                             msg |-> <<"That spot is already taken. Try again.">>]
                       ELSE [kind |-> "return", val |-> position]

-----------------------------------------------------------------------------
(* run_tic_tac_toe *)

\* main is not running: run_tic_tac_toe or another function is called directly
MainOff ==
    /\ mpc = "off"
    /\ user_choice = None
    /\ keep_running = TRUE
    /\ launched = "none"

Init ==
    /\ board = EmptyBoard
    /\ current = "X"
    /\ move = None
    /\ winner = None
    /\ msg = <<"You are X. The AI is O. Enter positions using numbers 1-9.">>
    /\ pc = "loop"
    /\ exc = None
    /\ nmoves = 0
    /\ op = "none"
    /\ args = <<>>
    /\ ret = None
    /\ MainOff

\* the turn never passing to the other player
Other_same(m) == m

Other(m) == IF m = "X" THEN "O" ELSE "X"

\* lines 132-144 without the return after a win
ApplyAndCheck_no_win_return(b, mv, said) ==
    LET r == list_setitem(b, mv, current)
        w == find_winner(r.board)
    IN  /\ move' = IntV(mv)
        /\ board' = r.board
        /\ nmoves' = nmoves + 1
        /\ winner' = w
        /\ exc' = exc
        /\ IF available_moves(r.board) = <<>>
           THEN /\ msg' = <<"It's a tie!">>
                /\ pc' = "returned"
                /\ current' = current
           ELSE /\ msg' = said
                /\ pc' = pc
                /\ current' = Other(current)

\* lines 132-144 with the tie tested before the win
ApplyAndCheck_tie_first(b, mv, said) ==
    LET r == list_setitem(b, mv, current)
        w == find_winner(r.board)
    IN  /\ move' = IntV(mv)
        /\ board' = r.board
        /\ nmoves' = nmoves + 1
        /\ winner' = w
        /\ exc' = exc
        /\ IF available_moves(r.board) = <<>>
           THEN /\ msg' = <<"It's a tie!">>
                /\ pc' = "returned"
                /\ current' = current
           ELSE IF Truthy(w)
                THEN /\ msg' = <<w.val, " wins!">>
                     /\ pc' = "returned"
                     /\ current' = current
                ELSE /\ msg' = said
                     /\ pc' = pc
                     /\ current' = Other(current)

\* lines 132-144 without the tie test
ApplyAndCheck_no_tie_return(b, mv, said) ==
    LET r == list_setitem(b, mv, current)
        w == find_winner(r.board)
    IN  /\ move' = IntV(mv)
        /\ board' = r.board
        /\ nmoves' = nmoves + 1
        /\ winner' = w
        /\ exc' = exc
        /\ IF Truthy(w)
           THEN /\ msg' = <<w.val, " wins!">>
                /\ pc' = "returned"
                /\ current' = current
           ELSE /\ msg' = said
                /\ pc' = pc
                /\ current' = Other(current)

\* lines 132-144 on the list with cells b and with `move` = mv; said is the
\* line printed before them, if any
ApplyAndCheck(b, mv, said) ==
    LET r == list_setitem(b, mv, current)
        w == find_winner(r.board)
    IN  /\ move' = IntV(mv)
        /\ board' = r.board
        /\ IF r.res.tag = "raise"
           THEN /\ pc' = "raised"
                /\ exc' = r.res
                /\ msg' = said
                /\ UNCHANGED <<winner, current, nmoves>>
           ELSE /\ nmoves' = nmoves + 1
                /\ winner' = w
                /\ exc' = exc
                /\ IF Truthy(w)
                   THEN /\ msg' = <<w.val, " wins!">>
                        /\ pc' = "returned"
                        /\ current' = current
                   ELSE IF available_moves(r.board) = <<>>
                        THEN /\ msg' = <<"It's a tie!">>
                             /\ pc' = "returned"
                             /\ current' = current
                        ELSE /\ msg' = said
                             /\ pc' = pc
                             /\ current' = Other(current)

\* the human's turn: one line is read and one iteration of prompt_human_move's
\* loop runs on it; when the line is accepted the rest of the loop body runs too
HumanTurn ==
    /\ pc = "loop" /\ current = "X"
    /\ \E raw \in RawInputs :
         LET s == prompt_step(board, strip(raw))
         IN  CASE s.kind = "continue" ->
                    \* refused: the message is printed and the prompt shown again
                    /\ msg' = s.msg
                    /\ UNCHANGED <<board, current, move, winner, pc, exc, nmoves>>
               [] s.kind = "raise" ->
                    \* int(choice) raises: the exception leaves run_tic_tac_toe
                    /\ pc' = "raised"
                    /\ exc' = Raise(s.exc)
                    /\ UNCHANGED <<board, current, move, winner, msg, nmoves>>
               [] s.kind = "return" ->
                    ApplyAndCheck(board, s.val, msg)
    /\ UNCHANGED <<op, args, ret>>
    /\ UNCHANGED menu

\* input() itself raises (end of input, or an interrupt)
HumanEOF ==
    /\ pc = "loop" /\ current = "X"
    /\ \E e \in {"EOFError", "KeyboardInterrupt"} : exc' = Raise(e)
    /\ pc' = "raised"
    /\ UNCHANGED <<board, current, move, winner, msg, nmoves, op, args, ret>>
    /\ UNCHANGED menu

\* the AI's turn: one whole iteration of the loop
AIMove ==
    /\ pc = "loop" /\ current # "X"
    /\ LET m == choose_ai_move(board, "O", "X")
           b == choose_ai_run(board, "O", "X").board
       IN  IF m.tag = "raise"
           THEN /\ pc' = "raised"
                /\ exc' = m
                /\ board' = b
                /\ UNCHANGED <<current, move, winner, msg, nmoves>>
           ELSE ApplyAndCheck(b, m.val, <<"AI chooses position ", m.val + 1, ".">>)
    /\ UNCHANGED <<op, args, ret>>
    /\ UNCHANGED menu

Next == HumanTurn \/ HumanEOF \/ AIMove

Spec == Init /\ [][Next]_vars

\* the human's turn goes on: the line is refused, or it is a valid move
HumanAnswers == HumanTurn /\ pc' # "raised"

\* line 132 is reached on the human's turn: prompt_human_move has returned
HumanMoves == pc = "loop" /\ current = "X" /\ nmoves' = nmoves + 1

\* line 132 is reached on the AI's turn: choose_ai_move has returned
AIMoves == pc = "loop" /\ current # "X" /\ nmoves' = nmoves + 1

\* the sessions in which no line ends the program and, on each of the human's
\* turns, a valid move comes after finitely many refused lines; the AI's turn
\* reads no input, so it runs to line 132 once it has begun
NextLive == HumanAnswers \/ AIMove
SpecLive == Init /\ [][NextLive]_vars /\ WF_nmoves(HumanMoves) /\ WF_nmoves(AIMoves)

\* a session taken up at any position of a game in which X moved first and
\* that is not over: the state at the top of the while loop
InitPosition ==
    /\ board \in AllBoards
    /\ IsNone(find_winner(board))
    /\ available_moves(board) # <<>>
    /\ nmoves = BoardLen - Len(available_moves(board))
    /\ LET xs == Cardinality({i \in Index : board[i] = "X"})
       IN  \/ current = "X" /\ nmoves = 2 * xs
           \/ current = "O" /\ nmoves = 2 * xs - 1
    /\ move = None
    /\ winner = None
    /\ msg = <<>>
    /\ pc = "loop"
    /\ exc = None
    /\ op = "none"
    /\ args = <<>>
    /\ ret = None
    /\ MainOff

\* one iteration of the while loop of run_tic_tac_toe with a move that either
\* player's function may return: the index of an empty cell
TurnBody ==
    /\ pc = "loop"
    /\ \E mv \in Index :
         /\ board[mv] = EMPTY
         /\ ApplyAndCheck(board, mv, msg)
    /\ UNCHANGED <<op, args, ret>>
    /\ UNCHANGED menu

SpecPosition == InitPosition /\ [][TurnBody]_vars

-----------------------------------------------------------------------------
(* The menu loop: handle_choice and main *)

\* a menu choice is a string, held as the sequence of its characters
PROJECTS ==
    <<"1">> :> "Tic Tac Toe (vs AI)" @@
    <<"2">> :> "Report Generator" @@
    <<"3">> :> "Dashboard Builder" @@
    <<"4">> :> "Model Training" @@
    <<"5">> :> "Exit"

actions ==
    <<"1">> :> "run_tic_tac_toe" @@
    <<"2">> :> "run_report_generator" @@
    <<"3">> :> "run_dashboard_builder" @@
    <<"4">> :> "run_model_training"

\* handle_choice up to the call of actions[choice]: the value it returns (once
\* that call has returned, if it makes one), the function it calls and the
\* line it prints
handle_choice(choice) ==
    IF choice \notin DOMAIN PROJECTS
    THEN [ret |-> TRUE, call |-> "none",
          out |-> <<"Invalid selection. Please choose a number from the menu.">>]
    ELSE IF choice = <<"5">>
    THEN [ret |-> FALSE, call |-> "none", out |-> <<"Exiting. Goodbye!">>]
    ELSE [ret |-> TRUE, call |-> actions[choice], out |-> <<"Launching: ", PROJECTS[choice]>>]

\* main at its first input(), no session running
InitMenu ==
    /\ board = EmptyBoard
    /\ current = "X"
    /\ move = None
    /\ winner = None
    /\ msg = <<>>
    /\ pc = "idle"
    /\ exc = None
    /\ nmoves = 0
    /\ op = "none"
    /\ args = <<>>
    /\ ret = None
    /\ mpc = "input"
    /\ user_choice = None
    /\ keep_running = TRUE
    /\ launched = "none"

\* a line is read at line 205 and handle_choice runs on it: to its return, or
\* into run_tic_tac_toe up to its first prompt
MenuChoice ==
    /\ mpc = "input"
    /\ \E raw \in RawInputs :
         LET h == handle_choice(strip(raw))
         IN  /\ user_choice' = StrV(strip(raw))
             /\ launched' = h.call
             /\ IF h.call = "run_tic_tac_toe"
                THEN /\ mpc' = "game"
                     /\ pc' = "loop"
                     /\ msg' = <<"You are X. The AI is O. Enter positions using numbers 1-9.">>
                     /\ keep_running' = keep_running
                ELSE /\ mpc' = IF h.ret THEN "input" ELSE "done"
                     /\ pc' = pc
                     /\ msg' = h.out
                     /\ keep_running' = h.ret
    /\ UNCHANGED <<board, current, move, winner, exc, nmoves, op, args, ret>>

\* input() raises at line 205: the except clause prints and breaks
MenuEOF ==
    /\ mpc = "input"
    /\ mpc' = "done"
    /\ msg' = <<"\nExiting. Goodbye!">>
    /\ UNCHANGED <<board, current, move, winner, pc, exc, nmoves, op, args, ret,
                   user_choice, keep_running, launched>>

\* run_tic_tac_toe returns: its locals are gone, handle_choice returns True and
\* main is at line 205 again
GameReturns ==
    /\ mpc = "game" /\ pc = "returned"
    /\ keep_running' = TRUE
    /\ mpc' = "input"
    /\ board' = EmptyBoard
    /\ current' = "X"
    /\ move' = None
    /\ winner' = None
    /\ nmoves' = 0
    /\ pc' = "idle"
    /\ UNCHANGED <<msg, exc, op, args, ret, user_choice, launched>>

\* an exception leaves run_tic_tac_toe: no handler in handle_choice, and main's
\* try covers line 205 only, so it leaves main too
GameRaises ==
    /\ mpc = "game" /\ pc = "raised"
    /\ mpc' = "raised"
    /\ UNCHANGED <<board, current, move, winner, msg, pc, exc, nmoves, op, args, ret,
                   user_choice, keep_running, launched>>

NextMenu ==
    \/ MenuChoice \/ MenuEOF
    \/ HumanTurn \/ HumanEOF \/ AIMove
    \/ GameReturns \/ GameRaises

SpecMenu == InitMenu /\ [][NextMenu]_vars

-----------------------------------------------------------------------------
(* The functions called on their own, on any board *)

InitCall ==
    /\ board \in AllBoards
    /\ current = "X"
    /\ move = None
    /\ winner = None
    /\ msg = <<>>
    /\ pc = "call"
    /\ exc = None
    /\ nmoves = 0
    /\ op = "none"
    /\ args = <<>>
    /\ ret = None
    /\ MainOff

CallFindWinner ==
    /\ pc = "call" /\ op = "none"
    /\ op' = "find_winner"
    /\ args' = <<>>
    /\ ret' = find_winner(board)
    /\ UNCHANGED <<board, current, move, winner, msg, pc, exc, nmoves>>
    /\ UNCHANGED menu

CallAvailableMoves ==
    /\ pc = "call" /\ op = "none"
    /\ op' = "available_moves"
    /\ args' = <<>>
    /\ ret' = ListV(available_moves(board))
    /\ UNCHANGED <<board, current, move, winner, msg, pc, exc, nmoves>>
    /\ UNCHANGED menu

CallFindFinishingMove ==
    /\ pc = "call" /\ op = "none"
    /\ \E marker \in Marker :
         /\ args' = [marker |-> marker, before |-> board]
         /\ ret' = find_finishing_move(board, marker)
         /\ board' = find_finishing_run(board, marker).board
    /\ op' = "find_finishing_move"
    /\ UNCHANGED <<current, move, winner, msg, pc, exc, nmoves>>
    /\ UNCHANGED menu

CallChooseAiMove ==
    /\ pc = "call" /\ op = "none"
    /\ \E ai \in Marker, human \in Marker :
         /\ args' = [ai_marker |-> ai, human_marker |-> human, before |-> board]
         /\ ret' = choose_ai_move(board, ai, human)
         /\ board' = choose_ai_run(board, ai, human).board
    /\ op' = "choose_ai_move"
    /\ UNCHANGED <<current, move, winner, msg, pc, exc, nmoves>>
    /\ UNCHANGED menu

\* choose_ai_move called once more, with the same arguments, on the list as
\* the first call left it
CallChooseAiMoveAgain ==
    /\ pc = "call" /\ op = "choose_ai_move"
    /\ args' = [ai_marker |-> args.ai_marker, human_marker |-> args.human_marker,
                before |-> args.before, first |-> ret]
    /\ ret' = choose_ai_move(board, args.ai_marker, args.human_marker)
    /\ board' = choose_ai_run(board, args.ai_marker, args.human_marker).board
    /\ op' = "choose_ai_move again"
    /\ UNCHANGED <<current, move, winner, msg, pc, exc, nmoves>>
    /\ UNCHANGED menu

\* line 132, board[move] = current, with any index and marker
CallSetItem ==
    /\ pc = "call" /\ op = "none"
    /\ \E idx \in (-MaxIdx) .. MaxIdx, marker \in Marker :
         LET r == list_setitem(board, idx, marker)
         IN  /\ args' = [idx |-> idx, marker |-> marker, before |-> board]
             /\ board' = r.board
             /\ ret' = r.res
    /\ op' = "setitem"
    /\ UNCHANGED <<current, move, winner, msg, pc, exc, nmoves>>
    /\ UNCHANGED menu

NextCall ==
    \/ CallFindWinner
    \/ CallAvailableMoves
    \/ CallFindFinishingMove
    \/ CallChooseAiMove
    \/ CallChooseAiMoveAgain

SpecCall == InitCall /\ [][NextCall]_vars

SpecSetItem == InitCall /\ [][CallSetItem]_vars

\* a session, or a function called on its own
InitAll == Init \/ InitCall
NextAll == Next \/ NextCall
SpecAll == InitAll /\ [][NextAll]_vars

-----------------------------------------------------------------------------
(* Vocabulary of the properties *)

Min(S) == CHOOSE x \in S : \A y \in S : x <= y

\* filling the empty cell i with marker m makes find_winner return m
WinsAt(b, m, i) ==
    /\ b[i] = EMPTY
    /\ find_winner([b EXCEPT ![i] = m]).tag = "str"
    /\ find_winner([b EXCEPT ![i] = m]).val = m
WinCells(b, m) == {i \in Index : WinsAt(b, m, i)}

EmptyCells(b) == {i \in Index : b[i] = EMPTY}

\* the 8 lines in the order the specification gives them
Lines ==
    << <<0, 1, 2>>, <<3, 4, 5>>, <<6, 7, 8>>, <<0, 3, 6>>,
       <<1, 4, 7>>, <<2, 5, 8>>, <<0, 4, 8>>, <<2, 4, 6>> >>
\* line k of the board holds three identical markers
Complete(b, k) ==
    /\ b[Lines[k][1]] \in Marker
    /\ b[Lines[k][2]] = b[Lines[k][1]]
    /\ b[Lines[k][3]] = b[Lines[k][1]]
CompleteLines(b) == {k \in 1 .. Len(Lines) : Complete(b, k)}
HasLine(b, m) == \E k \in CompleteLines(b) : b[Lines[k][1]] = m

\* the preference order the specification gives: center, corners, edges
PreferenceOrder == <<4, 0, 2, 6, 8, 1, 3, 5, 7>>
FirstPreferred(b) ==
    PreferenceOrder[Min({k \in 1 .. Len(PreferenceOrder) : b[PreferenceOrder[k]] = EMPTY})]

Called(f) == pc = "call" /\ op = f
Returned(i) == ret.tag = "int" /\ ret.val = i

Scenario2 == <<"X", "X", " ", "O", " ", " ", " ", " ", " ">>
Scenario3 == <<"O", "O", " ", "X", "X", " ", " ", " ", " ">>
BoardIs(cells) == \A i \in Index : board[i] = cells[i + 1]

-----------------------------------------------------------------------------
(* Properties of the functions, on every board (SpecCall) *)

\* C1: when the ai marker has an immediate winning cell, choose_ai_move
\* returns the lowest-index one, whether or not the human marker has an
\* immediate winning cell too (the win comes before the block).
C1_WinFirst ==
    (Called("choose_ai_move") /\ args.ai_marker # args.human_marker
        /\ WinCells(board, args.ai_marker) # {})
    => Returned(Min(WinCells(board, args.ai_marker)))

\* C1 witness: scenario 3, where both O and X can win at once, and O takes its win at 2
C1_Witness ==
    /\ Called("choose_ai_move") /\ args.ai_marker = "O" /\ args.human_marker = "X"
    /\ BoardIs(Scenario3)
    /\ WinCells(board, "X") # {}
    /\ Returned(2)

\* C2: when the ai marker has no immediate winning cell and the human marker
\* has one, choose_ai_move returns the lowest-index human-winning cell.
C2_BlockSecond ==
    (Called("choose_ai_move") /\ args.ai_marker # args.human_marker
        /\ WinCells(board, args.ai_marker) = {}
        /\ WinCells(board, args.human_marker) # {})
    => Returned(Min(WinCells(board, args.human_marker)))

\* C2 witness: scenario 2, O blocks X's row at 2
C2_Witness ==
    /\ Called("choose_ai_move") /\ args.ai_marker = "O" /\ args.human_marker = "X"
    /\ BoardIs(Scenario2)
    /\ WinCells(board, "O") = {}
    /\ Returned(2)

\* C3: when the board has an empty cell and neither marker has an immediate
\* winning cell, choose_ai_move returns the first empty cell in the order
\* 4, 0, 2, 6, 8, 1, 3, 5, 7; on the empty board it returns 4.
C3_PreferenceOrder ==
    /\ (Called("choose_ai_move") /\ args.ai_marker # args.human_marker
          /\ EmptyCells(board) # {}
          /\ WinCells(board, args.ai_marker) = {}
          /\ WinCells(board, args.human_marker) = {})
       => Returned(FirstPreferred(board))
    /\ (Called("choose_ai_move") /\ args.ai_marker # args.human_marker
          /\ board = EmptyBoard)
       => Returned(4)

\* C3 witness: center and two corners taken, no threat: the AI takes corner 2
C3_Witness ==
    /\ Called("choose_ai_move") /\ args.ai_marker = "O" /\ args.human_marker = "X"
    /\ board[4] = "X" /\ board[0] = "O" /\ board[8] = "X"
    /\ Cardinality(EmptyCells(board)) = 6
    /\ Returned(2)

\* C4: find_winner returns None exactly when none of the 8 lines holds three
\* identical markers, and otherwise the marker of the first such line in the
\* fixed order; lines with empty cells do not stop the scan.
C4_FindWinner ==
    Called("find_winner")
    => IF CompleteLines(board) = {}
       THEN ret.tag = "None"
       ELSE ret.tag = "str" /\ ret.val = board[Lines[Min(CompleteLines(board))][1]]

\* C4 witness: first row has empty cells, second row is O's, third row is X's:
\* the scan passes the first row and reports O
C4_Witness ==
    /\ Called("find_winner")
    /\ board[0] = EMPTY /\ board[1] = EMPTY
    /\ Complete(board, 2) /\ board[3] = "O"
    /\ Complete(board, 3) /\ board[6] = "X"
    /\ ret.tag = "str" /\ ret.val = "O"

\* C5: find_finishing_move returns the lowest empty index whose filling with
\* the marker makes find_winner return the marker, and None exactly when no
\* empty cell does (in particular on a full board).
C5_FindFinishingMove ==
    Called("find_finishing_move")
    => /\ (WinCells(board, args.marker) # {}
             => Returned(Min(WinCells(board, args.marker))))
       /\ (WinCells(board, args.marker) = {} <=> ret.tag = "None")
       /\ (EmptyCells(board) = {} => ret.tag = "None")

\* C5 witness: the marker can finish at two cells or more; the lowest is returned
C5_Witness ==
    /\ Called("find_finishing_move")
    /\ Cardinality(WinCells(board, args.marker)) >= 2
    /\ HasLine(board, IF args.marker = "X" THEN "O" ELSE "X") = FALSE
    /\ Returned(Min(WinCells(board, args.marker)))

-----------------------------------------------------------------------------
(* Properties of a session *)

Count(b, m) == Cardinality({i \in Index : b[i] = m})
InSession == pc # "call"
\* the board has a winner or no empty cell
Terminal(b) == CompleteLines(b) # {} \/ EmptyCells(b) = {}

\* C6: available_moves returns exactly the indices of the empty cells, each
\* once, in strictly ascending order, and the empty sequence exactly when the
\* board is full; in a session its length is 9 minus the number of moves made.
C6_AvailableMoves ==
    /\ Called("available_moves")
       => /\ ret.tag = "list"
          /\ \A k \in 1 .. Len(ret.val) - 1 : ret.val[k] < ret.val[k + 1]
          /\ {ret.val[k] : k \in 1 .. Len(ret.val)} = EmptyCells(board)
          /\ (ret.val = <<>> <=> \A i \in Index : board[i] # EMPTY)
    /\ InSession
       => /\ Len(available_moves(board)) = 9 - nmoves
          /\ (available_moves(board) = <<>> <=> \A i \in Index : board[i] # EMPTY)

\* C6 witness: a session that has filled the board in 9 moves: no move is available
C6_Witness ==
    /\ InSession /\ nmoves = 9
    /\ EmptyCells(board) = {}
    /\ available_moves(board) = <<>>

\* one step of a session as C7 has it: the board changes only while it is not
\* terminal, by one marker, X on the odd moves and O on the even ones, and O's
\* cell is the one choose_ai_move(board, "O", "X") returns
C7_Step ==
    /\ board' # board
       => /\ pc = "loop" /\ ~Terminal(board)
          /\ nmoves' = nmoves + 1
          /\ \E i \in Index :
               board' = [board EXCEPT ![i] = IF nmoves % 2 = 0 THEN "X" ELSE "O"]
          /\ current = (IF nmoves % 2 = 0 THEN "X" ELSE "O")
          /\ nmoves % 2 = 1
             => /\ choose_ai_move(board, "O", "X").tag = "int"
                /\ board' = [board EXCEPT ![choose_ai_move(board, "O", "X").val] = "O"]
    /\ nmoves' # nmoves => board' # board
    /\ Terminal(board) => pc = "returned" /\ pc' = "returned"

\* C7: a session starts on the empty board with X to move; moves alternate
\* X, O, X, ...; O's moves are the ones choose_ai_move(board, O, X) returns;
\* once the board has a winner or is full no further move is applied.
C7_Session ==
    /\ board = EmptyBoard /\ current = "X" /\ pc = "loop" /\ nmoves = 0
    /\ [][C7_Step]_vars

\* C7 witness: the AI has won with its third move and the session has returned
C7_Witness ==
    /\ pc = "returned" /\ nmoves = 6
    /\ HasLine(board, "O")
    /\ winner.tag = "str" /\ winner.val = "O"

\* C8: every cell holds one of empty, X, O; the number of X minus the number
\* of O is 0 or 1, 0 whenever X is to move and 1 whenever O is to move.
C8_MarkerCounts ==
    /\ board \in AllBoards
    /\ Count(board, "X") - Count(board, "O") \in {0, 1}
    /\ (pc = "loop" /\ current = "X") => Count(board, "X") = Count(board, "O")
    /\ (pc = "loop" /\ current = "O") => Count(board, "X") = Count(board, "O") + 1

\* C8 witness: O is to move for the third time, with three X and two O on the board
C8_Witness ==
    /\ pc = "loop" /\ current = "O"
    /\ Count(board, "X") = 3 /\ Count(board, "O") = 2

\* C9: on no board of a session do X and O both hold a complete line, so the
\* complete lines of a board all carry one marker and the order of the scan
\* does not matter.
C9_OneWinner ==
    /\ ~(HasLine(board, "X") /\ HasLine(board, "O"))
    /\ \A k \in CompleteLines(board) :
         winner.tag = "str" /\ winner.val = board[Lines[k][1]]

\* C9 witness: X has won on a board where O holds two cells of a line of its own
C9_Witness ==
    /\ pc = "returned"
    /\ HasLine(board, "X") /\ ~HasLine(board, "O")
    /\ WinCells(board, "O") # {}

-----------------------------------------------------------------------------
(* The assignment of line 132 on any board, index and marker (SpecSetItem) *)

-----------------------------------------------------------------------------
(* More properties of a session *)

HumanToMove == pc = "loop" /\ current = "X"
AIToMove == pc = "loop" /\ current = "O"
IsTie == pc = "returned" /\ Len(msg) = 1 /\ msg[1] = "It's a tie!"
IsWin(m) == pc = "returned" /\ Len(msg) = 2 /\ msg[1] = m /\ msg[2] = " wins!"

\* X holds two winning cells or more at once and the AI cannot win at once
Fork == AIToMove /\ WinCells(board, "O") = {} /\ Cardinality(WinCells(board, "X")) >= 2

\* C11: the AI can be beaten. Against a fork it blocks the lowest of X's
\* winning cells only, and X moves next with a winning cell left; a session
\* that X has won is reached (the witness), so "X never wins" is no invariant.
C11_Beatable ==
    [][Fork => /\ board' = [board EXCEPT ![Min(WinCells(board, "X"))] = "O"]
               /\ pc' = "loop" /\ current' = "X"
               /\ WinCells(board', "X") # {}]_vars

\* C11 witness: X has won by 0, 8, 6, 7 against the AI's 4, 2, 3
C11_Witness ==
    /\ IsWin("X") /\ nmoves = 7
    /\ BoardIs(<<"X", " ", "O", "O", "O", " ", "X", "X", "X">>)
    /\ winner.tag = "str" /\ winner.val = "X"

\* C12: a session ends in a tie exactly when, after a move, the board has no
\* empty cell and find_winner returns None; a move that fills the last cell
\* and completes a line ends the session as a win for the mover.
C12_Tie ==
    /\ IsTie <=> (InSession /\ EmptyCells(board) = {} /\ IsNone(find_winner(board)))
    /\ (InSession /\ EmptyCells(board) = {} /\ ~IsNone(find_winner(board)))
       => /\ move.tag = "int"
          /\ IsWin(board[move.val])
          /\ find_winner(board).val = board[move.val]

\* C12 witness: X's fifth move fills the last cell and completes a line
C12_Witness ==
    /\ EmptyCells(board) = {} /\ nmoves = 9
    /\ HasLine(board, "X")
    /\ IsWin("X")

C19_OneCell ==
    [][(board' # board \/ nmoves' # nmoves)
       => /\ nmoves' = nmoves + 1
          /\ move'.tag = "int" /\ move'.val \in Index
          /\ board[move'.val] = EMPTY
          /\ board' = [board EXCEPT ![move'.val] = current]]_vars

\* C19 witness: the AI has just made its second move on a cell that now holds O
C19_Witness ==
    /\ HumanToMove /\ nmoves = 4
    /\ move.tag = "int" /\ board[move.val] = "O"

\* C20: when a session ends with a winner, the winner is the player who made
\* the last move: X after 5, 7 or 9 moves, O after 6 or 8.
C20_WinnerMovedLast ==
    (pc = "returned" /\ Truthy(winner))
    => /\ winner.val = current
       /\ move.tag = "int" /\ board[move.val] = winner.val
       /\ HasLine(board, winner.val)
       /\ winner.val = "X" => nmoves \in {5, 7, 9}
       /\ winner.val = "O" => nmoves \in {6, 8}

\* C20 witness: O wins with its fourth move
C20_Witness ==
    /\ pc = "returned" /\ nmoves = 8
    /\ Truthy(winner) /\ winner.val = "O" /\ current = "O"

-----------------------------------------------------------------------------
(* More properties of the functions *)

\* C13: find_finishing_move and choose_ai_move leave the list they are given
\* as it was, whatever they return.
C13_BoardUnchanged ==
    (Called("find_finishing_move") \/ Called("choose_ai_move"))
    => board = args.before

\* C13 witness: find_finishing_move has tried at least one cell in vain
\* before the one it returns
C13_Witness ==
    /\ Called("find_finishing_move")
    /\ ret.tag = "int" /\ ret.val > Min(EmptyCells(args.before))
    /\ board = args.before

C18_NoFallback ==
    /\ AIToMove
       => /\ EmptyCells(board) # {} /\ CompleteLines(board) = {}
          /\ choose_ai_run(board, "O", "X").ret.tag = "int"
          /\ choose_ai_run(board, "O", "X").ret.val \in EmptyCells(board)
          /\ choose_ai_run(board, "O", "X").via \in {"win", "block", "preferred"}
    /\ Called("choose_ai_move")
       => LET r == choose_ai_run(args.before, args.ai_marker, args.human_marker)
          IN  /\ r.via = "fallback" <=> EmptyCells(args.before) = {}
              /\ r.via = "fallback" => ret.tag = "raise"

\* C18 witness: the AI is to move and its preference step gives an edge
C18_Witness ==
    /\ AIToMove
    /\ choose_ai_run(board, "O", "X").via = "preferred"
    /\ choose_ai_run(board, "O", "X").ret.val \in {1, 3, 5, 7}

\* the human's turn goes on at the prompt: the line was refused
Reprompted ==
    /\ pc' = "loop" /\ current' = "X"
    /\ board' = board /\ nmoves' = nmoves /\ exc' = exc

\* prompt_human_move has returned n - 1 for a number n in 1..9 whose cell was
\* empty, and the session loop has applied it
Forwarded ==
    \E n \in 1 .. 9 :
        /\ board[n - 1] = EMPTY
        /\ move' = IntV(n - 1)
        /\ board' = [board EXCEPT ![n - 1] = "X"]
        /\ nmoves' = nmoves + 1

\* input() itself raised: there was no line to read
NoLine ==
    /\ pc' = "raised" /\ exc'.tag = "raise"
    /\ exc'.val \in {"EOFError", "KeyboardInterrupt"}
    /\ board' = board /\ nmoves' = nmoves

\* C15: whatever line the human types, prompt_human_move either returns
\* n - 1 for a number n in 1..9 whose cell is empty, or refuses the line and
\* prompts again with the board unchanged; nothing else is forwarded to the
\* session loop or ends the prompt while there are lines to read.
C15_ValidOrReprompt ==
    [][HumanToMove => (Reprompted \/ Forwarded \/ NoLine)]_vars

\* main has ended
MainStopped == mpc \in {"done", "raised"}
\* the input stream ended or was interrupted: at the menu prompt (caught), or
\* at the move prompt
StreamEnded ==
    \/ mpc = "done" /\ msg = <<"\nExiting. Goodbye!">>
    \/ exc.tag = "raise" /\ exc.val \in {"EOFError", "KeyboardInterrupt"}

\* C16: once handle_choice has returned, it has returned False exactly for
\* "5" and True otherwise, having called its function for "1".."4" and none
\* for any other input; and main has stopped only if handle_choice returned
\* False or the input stream ended or was interrupted.
C16_MenuLoop ==
    /\ (mpc \in {"input", "done"} /\ ~IsNone(user_choice))
       => /\ keep_running = (user_choice.val # <<"5">>)
          /\ launched = IF user_choice.val \in DOMAIN actions
                        THEN actions[user_choice.val] ELSE "none"
    /\ MainStopped => (keep_running = FALSE \/ StreamEnded)

====
